---- MODULE Spec2Model ----
(***************************************************************************)
(* Model of the simulation workers of edcrest (src/projectile.js):         *)
(*   - the two-body momentum worker          (lines 370-773)               *)
(*   - the parameterised projectile worker   (lines 916-1133)              *)
(* Each worker is a single-threaded event loop: one callback (a message    *)
(* handler or a timer callback) runs to completion before the next.  An    *)
(* action of the model is one whole callback.                              *)
(*                                                                         *)
(* Numbers.  JavaScript doubles are modelled in fixed point:               *)
(*   real time (performance.now)         1 = 1 ms                          *)
(*   simulated time t, acc, dt, maxT     1 = 1 us                          *)
(*   SPEED                               1 = 0.25 (4 = real time)          *)
(*   momentum worker:   positions 1 = 1 um, velocities 1 = 1 mm/s,         *)
(*                      masses 1 = 1 kg, momenta 1 = 1 kg mm/s             *)
(*   projectile worker: velocities 1 = 0.545 mm/s (g = 18000 per second),  *)
(*                      positions 1 = 0.545 um, accelerations 1 = 0.545    *)
(*                      mm/s per second                                    *)
(* A number that is not finite (NaN, Infinity, a non-numeric value) is     *)
(* NaN below; a missing field of a message is a key missing from the       *)
(* record.                                                                 *)
(***************************************************************************)
EXTENDS Integers, Sequences, FiniteSets, TLC

VARIABLES
    worker,       \* which worker script this instance runs
    params,       \* `params`
    SPEED,        \* `SPEED`
    running,      \* `running`
    state,        \* `state` (Null before the first start)
    inContact,    \* `inContact`           (momentum worker)
    momentumPre,  \* `momentumPre`         (momentum worker)
    momentumPost, \* `momentumPost`        (momentum worker)
    loopTimer,    \* `loopTimer`: 0 is null, otherwise a timer handle
    timers,       \* the timeouts pending in the worker's event loop
    lastReal,     \* `lastReal`
    acc,          \* `acc`
    now,          \* performance.now()
    outbox,       \* notifications posted to the host since the last start()
                  \* (in FlightSpec: by the latest call of loop() or start())
    steps,        \* local `steps` of the most recent loop() that got past its guard
    last,         \* the callback that ran most recently ("restart": a start
                  \* accepted while a run was Running or Paused; "tick"/"skip": a
                  \* timer callback that got past the guard of loop() or not)
    ncmd,         \* number of host commands processed so far
    runFor,       \* real ms spent with running = true since the last executed tick
    pausedFor,    \* real ms spent with running = false since the last pause/done
    trace,        \* history of the while loop when it is followed one iteration
                  \* at a time (IterSpec): hits = collisions resolved so far, hit =
                  \* the last iteration resolved one, apart = an iteration has ended
                  \* with the bodies apart since the last resolution
    host,         \* the host page: its `running` and `paused`, the number of
                  \* notifications of outbox it has handled (seen) and the
                  \* number of clicks that sent a command (clicks)
    inbox         \* commands the host has posted that the worker has not yet
                  \* received (HostSpec)

vars == <<worker, params, SPEED, running, state, inContact, momentumPre,
          momentumPost, loopTimer, timers, lastReal, acc, now, outbox, steps,
          last, ncmd, runFor, pausedFor, trace, host, inbox>>

-----------------------------------------------------------------------------
(* Bounds of the model *)

\* real time is explored up to this many timer periods
MaxPeriods == 5
\* number of host commands explored
MaxCmds == 3
\* number of timeouts that may be pending at once
MaxTimers == 2

-----------------------------------------------------------------------------
(* Arithmetic helpers *)

Null == [null |-> TRUE]
NaN == [fin |-> FALSE, v |-> 0]
Num(n) == [fin |-> TRUE, v |-> n]

Abs(x) == IF x < 0 THEN -x ELSE x
Sgn(x) == IF x < 0 THEN -1 ELSE IF x > 0 THEN 1 ELSE 0
Max2(a, b) == IF a >= b THEN a ELSE b
Min2(a, b) == IF a <= b THEN a ELSE b

\* a / b rounded to the nearest integer (b > 0)
RDiv(a, b) == Sgn(a) * ((2 * Abs(a) + b) \div (2 * b))

RECURSIVE SqrtIter(_, _, _)
SqrtIter(n, lo, hi) ==
    IF lo >= hi THEN lo
    ELSE LET mid == (lo + hi + 1) \div 2
         IN IF mid * mid <= n THEN SqrtIter(n, mid, hi) ELSE SqrtIter(n, lo, mid - 1)

\* floor of the square root of n, 0 <= n < 2^31
Isqrt(n) == SqrtIter(n, 0, 46340)

\* Math.hypot: exact when one argument is 0, otherwise the integer square
\* root, computed on operands scaled down far enough to stay in 32 bits
Hypot(dx, dy) ==
    LET a == Abs(dx)
        b == Abs(dy)
        m == Max2(a, b)
        k == (m \div 32000) + 1
    IN IF b = 0 THEN a
       ELSE IF a = 0 THEN b
       ELSE k * Isqrt((a \div k) * (a \div k) + (b \div k) * (b \div k))

\* <<quotient, remainder>> of a * b by c for a, b >= 0, 0 < c < 2^30, without
\* forming the product
RECURSIVE MulDivQR(_, _, _)
MulDivQR(a, b, c) ==
    IF b = 0 THEN <<0, 0>>
    ELSE LET h == MulDivQR(a, b \div 2, c)
             q2 == 2 * h[1] + ((2 * h[2]) \div c)
             r2 == (2 * h[2]) % c
         IN IF b % 2 = 1
            THEN <<q2 + (a \div c) + ((r2 + (a % c)) \div c), (r2 + (a % c)) % c>>
            ELSE <<q2, r2>>

\* the largest magnitude the fixed-point numbers take (a double far outside
\* the simulated box saturates here)
Huge == 1000 * 1000 * 1000

\* a * b / c for signed a, b and c # 0, rounded to nearest, saturating at Huge
MulDiv(a, b, c) ==
    LET s == Sgn(a) * Sgn(b) * Sgn(c)
        aa == Abs(a)
        bb == Abs(b)
        cc == Abs(c)
    IN IF aa = 0 \/ bb = 0 THEN 0
       ELSE IF aa <= Huge \div bb
       THEN s * (((aa * bb) \div cc) + (IF 2 * ((aa * bb) % cc) >= cc THEN 1 ELSE 0))
       ELSE IF (aa \div cc) >= Huge \div bb THEN s * Huge
       ELSE LET qr == MulDivQR(Max2(aa, bb), Min2(aa, bb), cc)
            IN s * Min2(Huge, qr[1] + (IF 2 * qr[2] >= cc THEN 1 ELSE 0))

\* Number.isFinite(+p.k): the field is present and a finite number
Finite(p, k) == k \in DOMAIN p /\ p[k].fin

\* cos and sin of an angle in degrees, in thousandths, for the angles the
\* model launches at
Cos1000(deg) ==
    CASE deg = 0 -> 1000
      [] deg = 90 -> 0
      [] deg = 180 -> -1000
      [] deg = 270 -> 0
      [] OTHER -> 707
Sin1000(deg) ==
    CASE deg = 0 -> 0
      [] deg = 90 -> 1000
      [] deg = 180 -> 0
      [] deg = 270 -> -1000
      [] OTHER -> 707

-----------------------------------------------------------------------------
(* The momentum worker: parameters *)

MAX_STEPS == 10

\* setTimeout(loop, 16)
TimerDelay == 16

MDefaults ==
    [m1 |-> 1, m2 |-> 1, r1 |-> 250000, r2 |-> 250000,
     v1 |-> 5000, angle1 |-> 0, v2 |-> 5000, angle2 |-> 180,
     x1 |-> -5000000, y1 |-> 0, x2 |-> 5000000, y2 |-> 0,
     dt |-> 5000, maxT |-> 10000000]

BOUNDS == [xMin |-> -10000000, xMax |-> 10000000, yMin |-> -5000000, yMax |-> 5000000]

\* applyParams that takes every finite value
MParamOkNoRange(k, v) == TRUE

\* the range test applyParams puts on each key
MParamOk(k, v) ==
    IF k \in {"m1", "m2", "r1", "r2", "dt", "maxT"} THEN v > 0
    ELSE IF k \in {"v1", "v2"} THEN v >= 0
    ELSE TRUE

\* applyParams of the momentum worker: `cur` is the current `params`, p the
\* message's params object; the result is the new `params`
MApplyParams(cur, p) ==
    [k \in DOMAIN cur |->
        IF Finite(p, k) /\ MParamOk(k, p[k].v) THEN p[k].v ELSE cur[k]]

\* the state object start() builds from params
MInitState(p) ==
    [x1 |-> p.x1, y1 |-> p.y1,
     vx1 |-> RDiv(p.v1 * Cos1000(p.angle1), 1000),
     vy1 |-> RDiv(p.v1 * Sin1000(p.angle1), 1000),
     x2 |-> p.x2, y2 |-> p.y2,
     vx2 |-> RDiv(p.v2 * Cos1000(p.angle2), 1000),
     vy2 |-> RDiv(p.v2 * Sin1000(p.angle2), 1000),
     t |-> 0]

computeMomentum(s, p) ==
    [p1 |-> [px |-> p.m1 * s.vx1, py |-> p.m1 * s.vy1],
     p2 |-> [px |-> p.m2 * s.vx2, py |-> p.m2 * s.vy2],
     total |-> [px |-> p.m1 * s.vx1 + p.m2 * s.vx2,
                py |-> p.m1 * s.vy1 + p.m2 * s.vy2]]

\* the snapshot object a tick message of the momentum worker carries
MSnapshot(s, collided, pre, post) ==
    [x1 |-> s.x1, y1 |-> s.y1, vx1 |-> s.vx1, vy1 |-> s.vy1,
     x2 |-> s.x2, y2 |-> s.y2, vx2 |-> s.vx2, vy2 |-> s.vy2,
     t |-> s.t, collided |-> collided, momentumPre |-> pre, momentumPost |-> post]

\* no velocity update: the bodies pass through each other
ImpulseVelocitiesNone(s, p) == s

\* the velocity update with the factor of body 1 used for body 2 as well
ImpulseVelocitiesOneFactor(s, p) ==
    LET dx12 == s.x1 - s.x2
        dy12 == s.y1 - s.y2
        k == (Max2(Abs(dx12), Abs(dy12)) \div 20000) + 1
        dxs == Sgn(dx12) * (Abs(dx12) \div k)
        dys == Sgn(dy12) * (Abs(dy12) \div k)
        dist2 == dxs * dxs + dys * dys
        dv1x == s.vx1 - s.vx2
        dv1y == s.vy1 - s.vy2
        dot1 == dv1x * dxs + dv1y * dys
        qx == IF dist2 = 0 THEN 0 ELSE MulDiv(dot1, dxs, dist2)
        qy == IF dist2 = 0 THEN 0 ELSE MulDiv(dot1, dys, dist2)
    IN [s EXCEPT !.vx1 = s.vx1 - MulDiv(2 * p.m2, qx, p.m1 + p.m2),
                 !.vy1 = s.vy1 - MulDiv(2 * p.m2, qy, p.m1 + p.m2),
                 !.vx2 = s.vx2 + MulDiv(2 * p.m2, qx, p.m1 + p.m2),
                 !.vy2 = s.vy2 + MulDiv(2 * p.m2, qy, p.m1 + p.m2)]

\* the velocity update with the factor m / (m1 + m2) in place of
\* 2 * m / (m1 + m2)
ImpulseVelocitiesHalf(s, p) ==
    LET dx12 == s.x1 - s.x2
        dy12 == s.y1 - s.y2
        k == (Max2(Abs(dx12), Abs(dy12)) \div 20000) + 1
        dxs == Sgn(dx12) * (Abs(dx12) \div k)
        dys == Sgn(dy12) * (Abs(dy12) \div k)
        dist2 == dxs * dxs + dys * dys
        dv1x == s.vx1 - s.vx2
        dv1y == s.vy1 - s.vy2
        dot1 == dv1x * dxs + dv1y * dys
        qx == IF dist2 = 0 THEN 0 ELSE MulDiv(dot1, dxs, dist2)
        qy == IF dist2 = 0 THEN 0 ELSE MulDiv(dot1, dys, dist2)
    IN [s EXCEPT !.vx1 = s.vx1 - MulDiv(p.m2, qx, p.m1 + p.m2),
                 !.vy1 = s.vy1 - MulDiv(p.m2, qy, p.m1 + p.m2),
                 !.vx2 = s.vx2 + MulDiv(p.m1, qx, p.m1 + p.m2),
                 !.vy2 = s.vy2 + MulDiv(p.m1, qy, p.m1 + p.m2)]

\* the velocity update of resolveCollision: s with the four velocities
\* replaced.  (dot / dist2) * dx is formed on the separation vector scaled
\* down to 32-bit range; coincident centres (dist2 = 0) leave dot = 0.
ImpulseVelocities(s, p) ==
    LET dx12 == s.x1 - s.x2
        dy12 == s.y1 - s.y2
        k == (Max2(Abs(dx12), Abs(dy12)) \div 20000) + 1
        dxs == Sgn(dx12) * (Abs(dx12) \div k)
        dys == Sgn(dy12) * (Abs(dy12) \div k)
        dist2 == dxs * dxs + dys * dys
        dv1x == s.vx1 - s.vx2
        dv1y == s.vy1 - s.vy2
        dot1 == dv1x * dxs + dv1y * dys
        qx == IF dist2 = 0 THEN 0 ELSE MulDiv(dot1, dxs, dist2)
        qy == IF dist2 = 0 THEN 0 ELSE MulDiv(dot1, dys, dist2)
    IN [s EXCEPT !.vx1 = s.vx1 - MulDiv(2 * p.m2, qx, p.m1 + p.m2),
                 !.vy1 = s.vy1 - MulDiv(2 * p.m2, qy, p.m1 + p.m2),
                 !.vx2 = s.vx2 + MulDiv(2 * p.m1, qx, p.m1 + p.m2),
                 !.vy2 = s.vy2 + MulDiv(2 * p.m1, qy, p.m1 + p.m2)]

\* resolveCollision that does not record the momentum after the collision
resolveCollisionNoPost(s, ic, pre, post, p) ==
    IF ic THEN [s |-> s, inContact |-> ic, momentumPre |-> pre, momentumPost |-> post]
    ELSE [s |-> ImpulseVelocities(s, p), inContact |-> TRUE,
          momentumPre |-> computeMomentum(s, p), momentumPost |-> post]

\* resolveCollision: the worker's [state, inContact, momentumPre, momentumPost]
\* after the call
resolveCollision(s, ic, pre, post, p) ==
    IF ic THEN [s |-> s, inContact |-> ic, momentumPre |-> pre, momentumPost |-> post]
    ELSE LET s2 == ImpulseVelocities(s, p)
         IN [s |-> s2, inContact |-> TRUE,
             momentumPre |-> computeMomentum(s, p),
             momentumPost |-> computeMomentum(s2, p)]

\* prev + alpha * (cur - prev) with alpha = num / (denom || 1e-12)
Interpolate(prev, cur, num, denom) ==
    IF denom = 0 THEN prev + Sgn(num) * Sgn(cur - prev) * Huge
    ELSE prev + MulDiv(num, cur - prev, denom)

\* a wall test that moves the body back inside and keeps its velocity
BounceNoFlip(x, v, r, lo, hi) ==
    IF x - r < lo THEN <<lo + r, v>>
    ELSE IF x + r > hi THEN <<hi - r, v>>
    ELSE <<x, v>>

\* the wall test of one coordinate: <<position, velocity>> after bounding
Bounce(x, v, r, lo, hi) ==
    IF x - r < lo THEN <<lo + r, Abs(v)>>
    ELSE IF x + r > hi THEN <<hi - r, -Abs(v)>>
    ELSE <<x, v>>

\* the four wall tests of one loop iteration
ApplyBounds(s, p) ==
    LET bx1 == Bounce(s.x1, s.vx1, p.r1, BOUNDS.xMin, BOUNDS.xMax)
        by1 == Bounce(s.y1, s.vy1, p.r1, BOUNDS.yMin, BOUNDS.yMax)
        bx2 == Bounce(s.x2, s.vx2, p.r2, BOUNDS.xMin, BOUNDS.xMax)
        by2 == Bounce(s.y2, s.vy2, p.r2, BOUNDS.yMin, BOUNDS.yMax)
    IN [s EXCEPT !.x1 = bx1[1], !.vx1 = bx1[2], !.y1 = by1[1], !.vy1 = by1[2],
                 !.x2 = bx2[1], !.vx2 = bx2[2], !.y2 = by2[1], !.vy2 = by2[2]]

\* positions advanced by velocity * dt (um = mm/s * us / 1000)
Advance(s, dt) ==
    [s EXCEPT !.x1 = s.x1 + MulDiv(s.vx1, dt, 1000), !.y1 = s.y1 + MulDiv(s.vy1, dt, 1000),
              !.x2 = s.x2 + MulDiv(s.vx2, dt, 1000), !.y2 = s.y2 + MulDiv(s.vy2, dt, 1000)]

\* the epsilon advance after a resolved collision: eps = 1e-6 s
Nudge(s) ==
    [s EXCEPT !.x1 = s.x1 + RDiv(s.vx1, 1000), !.y1 = s.y1 + RDiv(s.vy1, 1000),
              !.x2 = s.x2 + RDiv(s.vx2, 1000), !.y2 = s.y2 + RDiv(s.vy2, 1000)]

Dist(s) == Hypot(s.x1 - s.x2, s.y1 - s.y2)

\* an end of iteration that never clears the contact flag
MStepEndNoReset(fin, ic, pre, post, p, hitPts1, hitPts2, hit) ==
    [s |-> fin,
     inContact |-> ic,
     momentumPre |-> pre,
     momentumPost |-> post,
     pts1 |-> hitPts1 \o <<[x |-> fin.x1, y |-> fin.y1, t |-> fin.t]>>,
     pts2 |-> hitPts2 \o <<[x |-> fin.x2, y |-> fin.y2, t |-> fin.t]>>,
     hit |-> hit]

\* the end of an iteration of the while loop: the samples pushed on batch1 and
\* batch2 and the contact reset; fin is the state after the wall tests and
\* the time advance
MStepEnd(fin, ic, pre, post, p, hitPts1, hitPts2, hit) ==
    [s |-> fin,
     inContact |-> IF ic /\ Dist(fin) > p.r1 + p.r2 THEN FALSE ELSE ic,
     momentumPre |-> pre,
     momentumPost |-> post,
     pts1 |-> hitPts1 \o <<[x |-> fin.x1, y |-> fin.y1, t |-> fin.t]>>,
     pts2 |-> hitPts2 \o <<[x |-> fin.x2, y |-> fin.y2, t |-> fin.t]>>,
     hit |-> hit]

\* the wall tests and `state.t += params.dt` on the state the collision test
\* left
MStepBound(s, ic, pre, post, p, hitPts1, hitPts2, hit) ==
    MStepEnd([ApplyBounds(s, p) EXCEPT !.t = s.t + p.dt], ic, pre, post, p,
             hitPts1, hitPts2, hit)

\* a collision branch whose step does not advance the time
MStepResolvedNoTime(atHit, res, p) ==
    MStepEnd(ApplyBounds(Nudge(res.s), p), res.inContact, res.momentumPre,
             res.momentumPost, p,
             <<[x |-> atHit.x1, y |-> atHit.y1, t |-> atHit.t]>>,
             <<[x |-> atHit.x2, y |-> atHit.y2, t |-> atHit.t]>>, TRUE)

\* the collision branch from the push of the contact samples on: res is what
\* resolveCollision left
MStepResolved(atHit, res, p) ==
    MStepBound(Nudge(res.s), res.inContact, res.momentumPre, res.momentumPost, p,
               <<[x |-> atHit.x1, y |-> atHit.y1, t |-> atHit.t]>>,
               <<[x |-> atHit.x2, y |-> atHit.y2, t |-> atHit.t]>>, TRUE)

\* the state moved to the interpolated contact point
AtHit(prev, adv, num, denom) ==
    [adv EXCEPT !.x1 = Interpolate(prev.x1, adv.x1, num, denom),
                !.y1 = Interpolate(prev.y1, adv.y1, num, denom),
                !.x2 = Interpolate(prev.x2, adv.x2, num, denom),
                !.y2 = Interpolate(prev.y2, adv.y2, num, denom)]

\* the collision branch from the move to the contact point atHit on
MStepAtHit(atHit, ic, pre, post, p) ==
    MStepResolved(atHit, resolveCollision(atHit, ic, pre, post, p), p)

\* the collision test without the `!inContact` conjunct
MStepCollideNoDebounce(prev, adv, ic, pre, post, p, prevDist, dist) ==
    IF dist <= p.r1 + p.r2
    THEN MStepAtHit(AtHit(prev, adv, prevDist - (p.r1 + p.r2), prevDist - dist),
                    FALSE, pre, post, p)
    ELSE MStepBound(adv, ic, pre, post, p, <<>>, <<>>, FALSE)

\* the collision test of an iteration: prev is the state before the advance,
\* adv the advanced state, prevDist and dist their centre distances
MStepCollide(prev, adv, ic, pre, post, p, prevDist, dist) ==
    IF ~ic /\ dist <= p.r1 + p.r2
    THEN MStepAtHit(AtHit(prev, adv, prevDist - (p.r1 + p.r2), prevDist - dist),
                    ic, pre, post, p)
    ELSE MStepBound(adv, ic, pre, post, p, <<>>, <<>>, FALSE)

\* an iteration from the position advance on
MStepAdvanced(prev, adv, ic, pre, post, p) ==
    MStepCollide(prev, adv, ic, pre, post, p, Dist(prev), Dist(adv))

\* an iteration that applies the wall tests before the collision test
MStepBoundsFirst(s, ic, pre, post, p) ==
    MStepAdvanced(s, ApplyBounds(Advance(s, p.dt), p), ic, pre, post, p)

\* one iteration of the while loop of the momentum worker's loop(), up to and
\* including the contact reset: the worker's state after it, the samples it
\* pushed on batch1 and batch2, and whether it resolved a collision
MStep(s, ic, pre, post, p) == MStepAdvanced(s, Advance(s, p.dt), ic, pre, post, p)

-----------------------------------------------------------------------------
(* The parameterised projectile worker: parameters and integrator *)

\* v0 and wind in 0.545 mm/s (30 m/s is 55046), g in 0.545 mm/s per second
\* (9.81 m/s^2 is 18000), cd in hundredths; m, A and rho enter accel() only
\* through k / m = cd * 0.5 * A * rho / m
PDefaults ==
    [v0 |-> 55046, angleDeg |-> 45, cd |-> 47, wind |-> 0,
     g |-> 18000, dt |-> 5000, maxT |-> 20000000]

\* applyParams of the projectile worker
PApplyParams(cur, p) ==
    [k \in DOMAIN cur |->
        CASE k = "v0" -> IF Finite(p, k) /\ p[k].v >= 0 THEN p[k].v ELSE cur[k]
          [] k = "angleDeg" -> IF Finite(p, k) THEN Min2(90, Max2(0, p[k].v)) ELSE cur[k]
          [] k = "cd" -> IF Finite(p, k) /\ p[k].v >= 0 THEN p[k].v ELSE cur[k]
          [] k = "wind" -> IF Finite(p, k) THEN p[k].v ELSE cur[k]
          [] OTHER -> cur[k]]

\* the state object start() builds from params
PInitState(p) ==
    [x |-> 0, y |-> 0,
     vx |-> MulDiv(p.v0, Cos1000(p.angleDeg), 1000),
     vy |-> MulDiv(p.v0, Sin1000(p.angleDeg), 1000),
     t |-> 0]

\* (k / m) * v * vrel in 0.545 mm/s per second: 0.5 * 0.0042 * 1.225 / 0.145
\* per metre, times cd / 100, times the unit 0.000545 m/s, is
\* cd * 9669 / 10^11 of v * vrel
Drag(cd, v, vrel) == MulDiv(MulDiv(v, vrel, 1000), cd * 9669, 100000000)

accel(vx, vy, p) ==
    LET vrelx == vx - p.wind
        vrely == vy
        v == Hypot(vrelx, vrely)
    IN [ax |-> -Drag(p.cd, v, vrelx), ay |-> -p.g - Drag(p.cd, v, vrely)]

\* a velocity change of acceleration a over the time h (us)
Dv(a, h) == MulDiv(a, h, 1000000)

\* one slope of stepRK4: the derivative of [x, y, vx, vy] at velocity
\* (vx, vy)
Slope(vx, vy, a) == [x |-> vx, y |-> vy, vx |-> a.ax, vy |-> a.ay]
SlopeAtV(vx, vy, p) == Slope(vx, vy, accel(vx, vy, p))

\* the slope at the velocity reached from s along slope k over the time h
SlopeAt(s, k, h, p) == SlopeAtV(s.vx + Dv(k.vx, h), s.vy + Dv(k.vy, h), p)

\* a step that uses the first slope only (Euler's method)
RK4SumFirstSlope(s, dt, k1, k2, k3, k4) ==
    [x |-> s.x + MulDiv(dt, k1.x, 1000),
     y |-> s.y + MulDiv(dt, k1.y, 1000),
     vx |-> s.vx + MulDiv(dt, k1.vx, 1000000),
     vy |-> s.vy + MulDiv(dt, k1.vy, 1000000),
     t |-> s.t + dt]

\* the weighted sum that ends stepRK4
RK4Sum(s, dt, k1, k2, k3, k4) ==
    [x |-> s.x + MulDiv(dt, k1.x + 2 * k2.x + 2 * k3.x + k4.x, 6000),
     y |-> s.y + MulDiv(dt, k1.y + 2 * k2.y + 2 * k3.y + k4.y, 6000),
     vx |-> s.vx + MulDiv(dt, k1.vx + 2 * k2.vx + 2 * k3.vx + k4.vx, 6000000),
     vy |-> s.vy + MulDiv(dt, k1.vy + 2 * k2.vy + 2 * k3.vy + k4.vy, 6000000),
     t |-> s.t + dt]

\* stepRK4 from its fourth, third and second slope on
RK4From4(s, p, k1, k2, k3) == RK4Sum(s, p.dt, k1, k2, k3, SlopeAt(s, k3, p.dt, p))
RK4From3(s, p, k1, k2) == RK4From4(s, p, k1, k2, SlopeAt(s, k2, p.dt \div 2, p))
RK4From2(s, p, k1) == RK4From3(s, p, k1, SlopeAt(s, k1, p.dt \div 2, p))

\* stepRK4: the state after one step
stepRK4(s, p) == RK4From2(s, p, SlopeAtV(s.vx, s.vy, p))

\* one sample of the projectile worker
PSample(s) == [x |-> s.x, y |-> s.y, t |-> s.t, v |-> Hypot(s.vx, s.vy)]

\* the snapshot object a tick message of the projectile worker carries
PSnapshot(s) ==
    [x |-> s.x, y |-> s.y, t |-> s.t, vx |-> s.vx, vy |-> s.vy, v |-> Hypot(s.vx, s.vy)]

\* a landing state that is the raw state below the ground
LandingRaw(prev, cur) == cur

\* the interpolated landing state between prev (y >= 0) and cur (y < 0)
Landing(prev, cur) ==
    LET denom == prev.y - cur.y
    IN [x |-> Interpolate(prev.x, cur.x, prev.y, denom),
        y |-> 0,
        t |-> Interpolate(prev.t, cur.t, prev.y, denom),
        vx |-> Interpolate(prev.vx, cur.vx, prev.y, denom),
        vy |-> Interpolate(prev.vy, cur.vy, prev.y, denom)]

-----------------------------------------------------------------------------
(* loop() *)

Workers == {"momentum", "projectile"}

\* a tick message; src names the postMessage call that sent it
Tick(src, pts1, pts2, snap) ==
    [type |-> "tick", src |-> src, points |-> pts1, points2 |-> pts2, state |-> snap]
DoneMsg == [type |-> "done"]
ErrorMsg == [type |-> "error"]

\* the loop condition without its `steps < MAX_STEPS` conjunct
WhileCondNoCap(w, p) == w.acc >= p.dt

\* the condition of the while loop of loop(); w holds the variables the loop
\* reads and writes
WhileCond(w, p) == w.acc >= p.dt /\ w.steps < MAX_STEPS

\* the loop variables after the iteration that MStep computed as r
MIterate(w, p, r) ==
    [w EXCEPT !.state = r.s, !.inContact = r.inContact,
              !.momentumPre = r.momentumPre, !.momentumPost = r.momentumPost,
              !.acc = w.acc - p.dt, !.steps = w.steps + 1,
              !.batch1 = w.batch1 \o r.pts1, !.batch2 = w.batch2 \o r.pts2,
              !.hits = w.hits + (IF r.hit THEN 1 ELSE 0)]

\* the while loop of the momentum worker's loop()
RECURSIVE MWhile(_, _)

\* the maxT test that ends an iteration: break, or go round again
MWhileNext(w, p) ==
    IF w.state.t >= p.maxT THEN [w EXCEPT !.running = FALSE] ELSE MWhile(w, p)

MWhile(w, p) ==
    IF WhileCond(w, p)
    THEN MWhileNext(MIterate(w, p, MStep(w.state, w.inContact, w.momentumPre,
                                         w.momentumPost, p)), p)
    ELSE w

\* a loop() that never calls setTimeout
MAfterWhileNoTimeout(w) ==
    LET tick == IF Len(w.batch1) > 0 \/ Len(w.batch2) > 0
                THEN <<Tick("batch", w.batch1, w.batch2,
                            MSnapshot(w.state,
                                      w.momentumPre # Null /\ w.momentumPost # Null,
                                      w.momentumPre, w.momentumPost))>>
                ELSE <<>>
    IN IF ~w.running
       THEN [w EXCEPT !.posts = tick \o <<DoneMsg>>, !.schedule = FALSE]
       ELSE [w EXCEPT !.posts = tick, !.schedule = FALSE]

\* what follows the while loop in the momentum worker: post the batch, then
\* done or reschedule
MAfterWhile(w) ==
    LET tick == IF Len(w.batch1) > 0 \/ Len(w.batch2) > 0
                THEN <<Tick("batch", w.batch1, w.batch2,
                            MSnapshot(w.state,
                                      w.momentumPre # Null /\ w.momentumPost # Null,
                                      w.momentumPre, w.momentumPost))>>
                ELSE <<>>
    IN IF ~w.running
       THEN [w EXCEPT !.posts = tick \o <<DoneMsg>>, !.schedule = FALSE]
       ELSE [w EXCEPT !.posts = tick, !.schedule = TRUE]

\* the while loop of the projectile worker's loop(), with the landing branch
\* that returns from loop() (w.returned)
RECURSIVE PWhile(_, _)

\* a landing branch that posts the landing tick before it flushes the batch
PLandedLandingFirst(w, p, cur, hit) ==
    [w EXCEPT !.state = cur, !.acc = w.acc - p.dt, !.steps = w.steps + 1,
              !.running = FALSE, !.returned = TRUE, !.schedule = FALSE,
              !.posts = <<Tick("landing", <<PSample(hit)>>, <<>>, PSnapshot(hit))>>
                        \o (IF Len(w.batch1) > 0
                            THEN <<Tick("flush", w.batch1, <<>>, PSnapshot(cur))>>
                            ELSE <<>>)
                        \o <<DoneMsg>>]

\* the landing branch: flush the batch, post the landing tick and done, return
PLanded(w, p, cur, hit) ==
    [w EXCEPT !.state = cur, !.acc = w.acc - p.dt, !.steps = w.steps + 1,
              !.running = FALSE, !.returned = TRUE, !.schedule = FALSE,
              !.posts = (IF Len(w.batch1) > 0
                         THEN <<Tick("flush", w.batch1, <<>>, PSnapshot(cur))>>
                         ELSE <<>>)
                        \o <<Tick("landing", <<PSample(hit)>>, <<>>, PSnapshot(hit))>>
                        \o <<DoneMsg>>]

\* the maxT test that ends an iteration: break, or go round again
PWhileNext(w, p) ==
    IF w.state.t >= p.maxT THEN [w EXCEPT !.running = FALSE] ELSE PWhile(w, p)

\* one iteration: prev is the state before stepRK4, cur the state after it
PIterate(w, p, prev, cur) ==
    IF prev.y >= 0 /\ cur.y < 0
    THEN PLanded(w, p, cur, Landing(prev, cur))
    ELSE PWhileNext([w EXCEPT !.state = cur, !.acc = w.acc - p.dt,
                              !.steps = w.steps + 1,
                              !.batch1 = w.batch1 \o <<PSample(cur)>>], p)

PWhile(w, p) ==
    IF WhileCond(w, p) THEN PIterate(w, p, w.state, stepRK4(w.state, p)) ELSE w

\* a loop() that posts its batch also when the batch is empty
PAfterWhilePostsEmpty(w) ==
    LET tick == <<Tick("batch", w.batch1, <<>>, PSnapshot(w.state))>>
    IN IF w.returned THEN w
       ELSE IF ~w.running
       THEN [w EXCEPT !.posts = tick \o <<DoneMsg>>, !.schedule = FALSE]
       ELSE [w EXCEPT !.posts = tick, !.schedule = TRUE]

\* what follows the while loop in the projectile worker
PAfterWhile(w) ==
    LET tick == IF Len(w.batch1) > 0
                THEN <<Tick("batch", w.batch1, <<>>, PSnapshot(w.state))>>
                ELSE <<>>
    IN IF w.returned THEN w
       ELSE IF ~w.running
       THEN [w EXCEPT !.posts = tick \o <<DoneMsg>>, !.schedule = FALSE]
       ELSE [w EXCEPT !.posts = tick, !.schedule = TRUE]

\* `let SPEED = 0.25`
DefaultSpeed == 1

\* the defaults of the worker's parameters
Defaults(wk) == IF wk = "momentum" THEN MDefaults ELSE PDefaults

\* owed time that leaves SPEED out: (now - lastReal) / 1000 at the default
\* speed
OwedAtDefaultSpeed(ms, spd) == ms * 250

\* simulated time owed for `ms` of real time at speed spd:
\* ((now - lastReal) / 1000) * SPEED
Owed(ms, spd) == ms * spd * 250

\* loop() past its guard: accumulate, integrate, post, reschedule
LoopBody(wk, p, spd, w, nowv) ==
    LET w0 == [w EXCEPT !.ran = TRUE,
                        !.acc = w.acc + Owed(nowv - w.lastReal, spd),
                        !.lastReal = nowv, !.steps = 0]
    IN IF wk = "momentum" THEN MAfterWhile(MWhile(w0, p))
       ELSE PAfterWhile(PWhile(w0, p))

\* loop() without its guard `if (!running) return`
LoopResultNoGuard(wk, p, spd, w, nowv) == LoopBody(wk, p, spd, w, nowv)

\* loop() run at real time `nowv` on the worker fields in w: the fields after
\* it, the messages it posted (posts) and whether it called setTimeout
\* (schedule); ran is false when the guard `if (!running) return` was taken
LoopResult(wk, p, spd, w, nowv) ==
    IF ~w.running THEN [w EXCEPT !.ran = FALSE] ELSE LoopBody(wk, p, spd, w, nowv)

\* the worker's variables, as loop() sees them
Fields ==
    [state |-> state, inContact |-> inContact, momentumPre |-> momentumPre,
     momentumPost |-> momentumPost, acc |-> acc, running |-> running,
     lastReal |-> lastReal, steps |-> steps, batch1 |-> <<>>, batch2 |-> <<>>,
     hits |-> 0, posts |-> <<>>, schedule |-> FALSE, returned |-> FALSE, ran |-> FALSE]

\* the handle setTimeout returns: one no pending timeout and no kept handle has
FreshId(pending, handle) ==
    CHOOSE i \in 1..(MaxTimers + 2) :
        /\ i # handle
        /\ \A tm \in pending : tm.id # i
        /\ \A j \in 1..(i - 1) : j = handle \/ \E tm \in pending : tm.id = j

\* clearTimer(): the pending timeouts after it
Cleared(pending, handle) == {tm \in pending : tm.id # handle}

\* the worker's variables after a callback that ended with loop() returning r,
\* where `pending` and `handle` are the timeouts and loopTimer before the call
\* of loop()
Commit(r, pending, handle) ==
    /\ state' = r.state
    /\ inContact' = r.inContact
    /\ momentumPre' = r.momentumPre
    /\ momentumPost' = r.momentumPost
    /\ acc' = r.acc
    /\ running' = r.running
    /\ lastReal' = r.lastReal
    /\ steps' = r.steps
    /\ IF r.schedule
       THEN LET id == FreshId(pending, handle)
            IN /\ timers' = pending \cup {[id |-> id, due |-> now + TimerDelay]}
               /\ loopTimer' = id
       ELSE /\ timers' = pending
            /\ loopTimer' = handle
    /\ Cardinality(timers') <= MaxTimers
    /\ runFor' = IF r.ran THEN 0 ELSE runFor

-----------------------------------------------------------------------------
(* Messages of the host *)

\* an object with none of the keys applyParams knows
EmptyObj == [other |-> Num(1)]

\* params of a start message to the momentum worker: two small bodies 34 mm
\* apart closing at 2 m/s, run for 60 ms
MClose ==
    [x1 |-> Num(-17000), x2 |-> Num(17000), r1 |-> Num(10000), r2 |-> Num(10000),
     v1 |-> Num(1000), v2 |-> Num(1000), maxT |-> Num(60000)]

\* params of out-of-range and non-numeric values
MBad == [m1 |-> Num(-1), r2 |-> Num(0), dt |-> NaN, maxT |-> Num(0), v1 |-> Num(-3)]

\* params of a start message to the projectile worker: a vertical launch at
\* 0.3 m/s without drag, which lands after 61 ms
PShort == [v0 |-> Num(550), angleDeg |-> Num(90), cd |-> Num(0)]

\* params of out-of-range and non-numeric values
PBad == [v0 |-> Num(-5), angleDeg |-> Num(120), cd |-> Num(-1), wind |-> NaN, dt |-> Num(1)]

\* the start messages the host sends
StartMsgs(wk) ==
    { [type |-> "start", params |-> IF wk = "momentum" THEN MClose ELSE PShort,
       speed |-> Num(4)],
      [type |-> "start", params |-> IF wk = "momentum" THEN MBad ELSE PBad],
      [type |-> "start", params |-> Null, speed |-> Num(2)] }

\* the speed values a setSpeed message carries: a valid one, zero, a negative
\* one, and one that is not a finite number
SpeedInputs == {Num(2), Num(0), Num(-2), NaN}

Messages(wk) ==
    StartMsgs(wk)
        \cup {[type |-> "pause"], [type |-> "resume"]}
        \cup {[type |-> "setSpeed", speed |-> sp] : sp \in SpeedInputs}

\* Number.isFinite(+msg.speed) && msg.speed > 0
SpeedOk(msg) == Finite(msg, "speed") /\ msg.speed.v > 0

applyParams(wk, cur, p) ==
    IF wk = "momentum" THEN MApplyParams(cur, p) ELSE PApplyParams(cur, p)

InitState(wk, p) == IF wk = "momentum" THEN MInitState(p) ELSE PInitState(p)

\* the message start() posts to seed the host
Seed(wk, s) ==
    IF wk = "momentum"
    THEN Tick("seed", <<[x |-> s.x1, y |-> s.y1, t |-> s.t]>>,
              <<[x |-> s.x2, y |-> s.y2, t |-> s.t]>>, MSnapshot(s, FALSE, Null, Null))
    ELSE Tick("seed", <<PSample(s)>>, <<>>, PSnapshot(s))

\* the notifications of this run that have been posted include a done
Finished == \E i \in DOMAIN outbox : outbox[i].type = "done"

\* the engine has been paused by a pause command (running was cleared, and
\* not by the end of the run)
Paused == state # Null /\ ~running /\ ~Finished

\* start() that keeps the run in progress when there is one
StartFieldsKeepRun(wk, p) ==
    IF state # Null THEN [Fields EXCEPT !.running = TRUE, !.lastReal = now]
    ELSE [Fields EXCEPT !.state = InitState(wk, p),
                        !.inContact = FALSE, !.momentumPre = Null, !.momentumPost = Null,
                        !.running = TRUE, !.acc = 0, !.lastReal = now]

\* the worker fields start() has set when it calls loop()
StartFields(wk, p) ==
    [Fields EXCEPT !.state = InitState(wk, p),
                   !.inContact = FALSE, !.momentumPre = Null, !.momentumPost = Null,
                   !.running = TRUE, !.acc = 0, !.lastReal = now]

\* start() that posts no seed message
StartPostsNoSeed(wk, s, posts) == posts

\* what start() posts: the seed message, then whatever its loop() posts
StartPosts(wk, s, posts) == <<Seed(wk, s)>> \o posts

\* start() from the return of its loop() on, with the assignments of the
\* `start` branch before it: p and spd are the new params and SPEED, s0 the
\* state start() built, r what loop() returned
StartDone(p, spd, s0, r) ==
    /\ params' = p
    /\ SPEED' = spd
    /\ Commit(r, Cleared(timers, loopTimer), 0)
    /\ outbox' = StartPosts(worker, s0, r.posts)
    /\ pausedFor' = 0

\* the `start` branch of onmessage.  applyParams(null) throws reading p.m1
\* (p.v0), before anything is assigned; the catch posts an error.
OnStart(msg) ==
    IF "params" \in DOMAIN msg /\ msg.params = Null
    THEN /\ outbox' = Append(outbox, ErrorMsg)
         /\ UNCHANGED <<params, SPEED, running, state, inContact, momentumPre,
                        momentumPost, loopTimer, timers, lastReal, acc, steps,
                        runFor, pausedFor>>
    ELSE LET p == applyParams(worker, params,
                              IF "params" \in DOMAIN msg THEN msg.params ELSE EmptyObj)
             spd == IF SpeedOk(msg) THEN msg.speed.v ELSE SPEED
             f == StartFields(worker, p)
         IN StartDone(p, spd, f.state, LoopResult(worker, p, spd, f, now))

\* a pause that also drops the owed time
OnPauseResetsAcc ==
    /\ running' = FALSE
    /\ timers' = Cleared(timers, loopTimer)
    /\ loopTimer' = 0
    /\ acc' = 0
    /\ pausedFor' = IF running THEN 0 ELSE pausedFor
    /\ UNCHANGED <<params, SPEED, state, inContact, momentumPre, momentumPost,
                   lastReal, outbox, steps, runFor>>

\* the `pause` branch of onmessage
OnPause ==
    /\ running' = FALSE
    /\ timers' = Cleared(timers, loopTimer)
    /\ loopTimer' = 0
    /\ pausedFor' = IF running THEN 0 ELSE pausedFor
    /\ UNCHANGED <<params, SPEED, state, inContact, momentumPre, momentumPost,
                   lastReal, acc, outbox, steps, runFor>>

\* the `resume` branch from the return of its loop() on: r is what loop()
\* returned
ResumeDone(r) ==
    /\ Commit(r, timers, loopTimer)
    /\ outbox' = outbox \o r.posts
    /\ UNCHANGED <<params, SPEED, pausedFor>>

\* a resume that does not reset lastReal
OnResumeNoRebase ==
    IF state = Null
    THEN UNCHANGED <<params, SPEED, running, state, inContact, momentumPre,
                     momentumPost, loopTimer, timers, lastReal, acc, outbox, steps,
                     runFor, pausedFor>>
    ELSE ResumeDone(LoopResult(worker, params, SPEED,
                               [Fields EXCEPT !.running = TRUE], now))

\* the `resume` branch of onmessage
OnResume ==
    IF state = Null
    THEN UNCHANGED <<params, SPEED, running, state, inContact, momentumPre,
                     momentumPost, loopTimer, timers, lastReal, acc, outbox, steps,
                     runFor, pausedFor>>
    ELSE ResumeDone(LoopResult(worker, params, SPEED,
                               [Fields EXCEPT !.running = TRUE, !.lastReal = now], now))

\* a setSpeed that also drops the owed time
OnSetSpeedResetsAcc(msg) ==
    /\ SPEED' = IF SpeedOk(msg) THEN msg.speed.v ELSE SPEED
    /\ acc' = 0
    /\ UNCHANGED <<params, running, state, inContact, momentumPre, momentumPost,
                   loopTimer, timers, lastReal, outbox, steps, runFor, pausedFor>>

\* the `setSpeed` branch of onmessage
OnSetSpeed(msg) ==
    /\ SPEED' = IF SpeedOk(msg) THEN msg.speed.v ELSE SPEED
    /\ UNCHANGED <<params, running, state, inContact, momentumPre, momentumPost,
                   loopTimer, timers, lastReal, acc, outbox, steps, runFor, pausedFor>>

\* self.onmessage: the worker receives msg
Receive(msg) ==
    /\ ncmd' = ncmd + 1
    /\ last' = IF /\ msg.type = "start"
                  /\ ~("params" \in DOMAIN msg /\ msg.params = Null)
                  /\ (running \/ Paused)
               THEN "restart"
               ELSE msg.type
    /\ CASE msg.type = "start" -> OnStart(msg)
         [] msg.type = "pause" -> OnPause
         [] msg.type = "resume" -> OnResume
         [] msg.type = "setSpeed" -> OnSetSpeed(msg)

\* a command sent straight to the worker, no host page in between
OnMessage(msg) ==
    /\ ncmd < MaxCmds
    /\ Receive(msg)
    /\ UNCHANGED <<worker, now, trace, host, inbox>>

\* the timeout callback from the return of loop() on: r is what loop()
\* returned
TimerDone(tm, r) ==
    /\ Commit(r, timers \ {tm}, loopTimer)
    /\ outbox' = outbox \o r.posts
    /\ last' = IF r.ran THEN "tick" ELSE "skip"
    /\ pausedFor' = IF running /\ ~r.running THEN 0 ELSE pausedFor

\* a pending timeout expires and the event loop calls loop()
TimerFires(tm) ==
    /\ now >= tm.due
    /\ TimerDone(tm, LoopResult(worker, params, SPEED, Fields, now))
    /\ UNCHANGED <<worker, params, SPEED, now, ncmd, trace, host, inbox>>

\* real time passes: one timer period, or a stall of four periods
ClockJumps == {TimerDelay, 4 * TimerDelay}

\* the event loop runs a timeout that is due before more time passes
Clock(d) ==
    /\ now + d <= MaxPeriods * TimerDelay
    /\ \A tm \in timers : now < tm.due
    /\ now' = now + d
    /\ runFor' = IF running THEN runFor + d ELSE runFor
    /\ pausedFor' = IF ~running /\ state # Null THEN pausedFor + d ELSE pausedFor
    /\ UNCHANGED <<worker, params, SPEED, running, state, inContact, momentumPre,
                   momentumPost, loopTimer, timers, lastReal, acc, outbox, steps,
                   last, ncmd, trace, host, inbox>>

\* the host page before its first click: `let running = false`, `let paused
\* = false`
NoHost == [running |-> FALSE, paused |-> FALSE, seen |-> 0, clicks |-> 0]

\* no iteration has run
NoTrace == [hits |-> 0, hit |-> FALSE, apart |-> FALSE]

Init ==
    /\ worker \in Workers
    /\ params = Defaults(worker)
    /\ SPEED = DefaultSpeed
    /\ running = FALSE
    /\ state = Null
    /\ inContact = FALSE
    /\ momentumPre = Null
    /\ momentumPost = Null
    /\ loopTimer = 0
    /\ timers = {}
    /\ lastReal = 0
    /\ acc = 0
    /\ now = 0
    /\ outbox = <<>>
    /\ steps = 0
    /\ last = "init"
    /\ ncmd = 0
    /\ runFor = 0
    /\ pausedFor = 0
    /\ trace = NoTrace
    /\ host = NoHost
    /\ inbox = <<>>

Next ==
    \/ \E msg \in Messages(worker) : OnMessage(msg)
    \/ \E tm \in timers : TimerFires(tm)
    \/ \E d \in ClockJumps : Clock(d)

Spec == Init /\ [][Next]_vars

-----------------------------------------------------------------------------
(* The while loop of the momentum worker, followed one iteration at a time. *)
(* Pacing decides only how the iterations are grouped into ticks; here each *)
(* step of the model is one iteration, from the state start() builds.       *)

\* iterations followed in one run
MaxIter == 200

\* params of start messages.  MWall: body 1 runs at 28 m/s into body 2, which
\* rests 0.5 m from the left wall; dt = 0.1 s
MWall ==
    [x1 |-> Num(-7000000), x2 |-> Num(-9000000), r1 |-> Num(500000), r2 |-> Num(500000),
     v1 |-> Num(28000), angle1 |-> Num(180), v2 |-> Num(0), dt |-> Num(100000)]

\* an off-centre collision of bodies of masses a and b; dt = 20 ms
MOblique(a, b) ==
    [m1 |-> Num(a), m2 |-> Num(b), x1 |-> Num(-1000000), x2 |-> Num(1000000),
     y2 |-> Num(300000), dt |-> Num(20000)]

\* two bodies on the vertical axis, closing; dt = 50 ms
MVertical ==
    [m2 |-> Num(2), x1 |-> Num(0), y1 |-> Num(-2000000), x2 |-> Num(0),
     y2 |-> Num(2000000), angle1 |-> Num(90), angle2 |-> Num(270), dt |-> Num(50000)]

\* body 1 heads at 45 degrees for the top right corner, body 2 rests; dt = 50 ms
MCorner ==
    [x1 |-> Num(8000000), y1 |-> Num(3000000), v1 |-> Num(10000), angle1 |-> Num(45),
     x2 |-> Num(-8000000), y2 |-> Num(-3000000), v2 |-> Num(0), dt |-> Num(50000)]

\* body 1 starts outside the left wall, moving inwards
MOutside ==
    [x1 |-> Num(-12000000), y1 |-> Num(2000000), x2 |-> Num(5000000),
     v2 |-> Num(0), dt |-> Num(50000)]

\* the bodies start overlapping next to the left wall, body 1 moving through
\* body 2 at 12 m/s; dt = 0.1 s
MOverlap ==
    [x1 |-> Num(-8500000), x2 |-> Num(-9000000), r1 |-> Num(500000), r2 |-> Num(500000),
     v1 |-> Num(12000), angle1 |-> Num(180), v2 |-> Num(0), dt |-> Num(100000)]

\* body 1 runs at 30 m/s past body 2, which rests next to the left wall, and
\* through the wall within one step; dt = 0.1 s
MTunnel ==
    [x1 |-> Num(-7500000), x2 |-> Num(-9000000), r1 |-> Num(500000), r2 |-> Num(500000),
     v1 |-> Num(30000), angle1 |-> Num(180), v2 |-> Num(0), dt |-> Num(100000)]

\* body 1, at rest, has a radius of 6 m, more than half the height of the box;
\* body 2 rests clear of it; dt = 0.1 s, run for 0.5 s
MBig ==
    [r1 |-> Num(6000000), v1 |-> Num(0), v2 |-> Num(0), x1 |-> Num(-3000000),
     x2 |-> Num(9000000), dt |-> Num(100000), maxT |-> Num(500000)]

IterParams ==
    {EmptyObj, MWall, MOverlap, MVertical, MCorner, MOutside, MTunnel, MBig}
        \cup {MOblique(a, b) : a \in 1..3, b \in 1..2}

\* the history after an iteration that MStep computed as r
TraceAfter(r, p) ==
    [hits |-> trace.hits + (IF r.hit THEN 1 ELSE 0),
     hit |-> r.hit,
     apart |-> IF Dist(r.s) > p.r1 + p.r2 THEN TRUE
               ELSE IF r.hit THEN FALSE ELSE trace.apart]

\* the assignments of one iteration, MStep having returned r
IterDone(r) ==
    /\ state' = r.s
    /\ inContact' = r.inContact
    /\ momentumPre' = r.momentumPre
    /\ momentumPost' = r.momentumPost
    /\ trace' = TraceAfter(r, params)
    /\ steps' = steps + 1

\* one iteration of the while loop; the loop is left when t >= maxT
Iterate ==
    /\ steps < MaxIter
    /\ state.t < params.maxT
    /\ IterDone(MStep(state, inContact, momentumPre, momentumPost, params))
    /\ UNCHANGED <<worker, params, SPEED, running, loopTimer, timers, lastReal, acc,
                   now, outbox, last, ncmd, runFor, pausedFor, host, inbox>>

\* the worker after start(): params applied to the defaults, state built
IterInit ==
    /\ worker = "momentum"
    /\ params \in {MApplyParams(MDefaults, q) : q \in IterParams}
    /\ state = MInitState(params)
    /\ inContact = FALSE
    /\ momentumPre = Null
    /\ momentumPost = Null
    /\ SPEED = DefaultSpeed
    /\ running = TRUE
    /\ loopTimer = 0
    /\ timers = {}
    /\ lastReal = 0
    /\ acc = 0
    /\ now = 0
    /\ outbox = <<>>
    /\ steps = 0
    /\ last = "start"
    /\ ncmd = 1
    /\ runFor = 0
    /\ pausedFor = 0
    /\ trace = NoTrace
    /\ host = NoHost
    /\ inbox = <<>>

IterNext == Iterate

IterSpec == IterInit /\ [][IterNext]_vars

-----------------------------------------------------------------------------
(* The projectile worker followed through whole flights: each step of the   *)
(* model is one call of loop() by the timer that finds one or three dt      *)
(* owed, from the state start() builds.  outbox holds what the latest call  *)
(* posted.  Every flight ends by itself: on the ground, or at t >= maxT.    *)

\* params of start messages.  PUp: straight up at 100 m/s without drag, still
\* 38 m up when t reaches maxT = 20 s
PUp == [v0 |-> Num(183486), angleDeg |-> Num(90), cd |-> Num(0)]

\* a horizontal launch at 10 m/s from the ground
PFlat == [v0 |-> Num(18349), angleDeg |-> Num(0), cd |-> Num(0)]

\* no launch speed
PRest == [v0 |-> Num(0)]

\* 5 m/s at 45 degrees without drag
PLob == [v0 |-> Num(9174), cd |-> Num(0)]

\* straight up at 5 m/s into a 10 m/s headwind
PWind == [v0 |-> Num(9174), angleDeg |-> Num(90), wind |-> Num(-18349)]

FlightParams == {EmptyObj, PShort, PUp, PFlat, PRest, PLob, PWind}

\* the assignments of loop(), r being the loop variables when it returns
FlightDone(r) ==
    /\ state' = r.state
    /\ running' = r.running
    /\ acc' = r.acc
    /\ outbox' = r.posts
    /\ steps' = r.steps

\* the numbers of dt a call of loop() finds owed
OwedSteps == {1, 3}

\* loop() called with n more dt owed
FlightTick(n) ==
    /\ running
    /\ FlightDone(PAfterWhile(PWhile([Fields EXCEPT !.acc = acc + n * params.dt,
                                                    !.steps = 0], params)))
    /\ UNCHANGED <<worker, params, SPEED, inContact, momentumPre, momentumPost,
                   loopTimer, timers, lastReal, now, last, ncmd, runFor, pausedFor,
                   trace, host, inbox>>

\* the worker after start(): params applied to the defaults, state built, the
\* seed posted
FlightInit ==
    /\ worker = "projectile"
    /\ params \in {PApplyParams(PDefaults, q) : q \in FlightParams}
    /\ state = PInitState(params)
    /\ inContact = FALSE
    /\ momentumPre = Null
    /\ momentumPost = Null
    /\ SPEED = DefaultSpeed
    /\ running = TRUE
    /\ loopTimer = 0
    /\ timers = {}
    /\ lastReal = 0
    /\ acc = 0
    /\ now = 0
    /\ outbox = <<Seed(worker, state)>>
    /\ steps = 0
    /\ last = "start"
    /\ ncmd = 1
    /\ runFor = 0
    /\ pausedFor = 0
    /\ trace = NoTrace
    /\ host = NoHost
    /\ inbox = <<>>

FlightNext == \E n \in OwedSteps : FlightTick(n)

FlightSpec == FlightInit /\ [][FlightNext]_vars

-----------------------------------------------------------------------------
(* The workers under a fair scheduler, for progress properties: the timer   *)
(* fires when it is due, real time advances while a timeout is pending, and *)
(* a paused run is resumed.  The host starts short runs, and resumes only a *)
(* paused run.                                                              *)

\* number of start, pause and setSpeed commands explored
MaxLiveCmds == 3

LiveMsgs(wk) ==
    { [type |-> "start", params |-> IF wk = "momentum" THEN MClose ELSE PShort,
       speed |-> Num(4)],
      [type |-> "pause"],
      [type |-> "setSpeed", speed |-> Num(2)] }

LiveCmd(msg) == ncmd < MaxLiveCmds /\ OnMessage(msg)

\* the host resumes a paused run
LiveResume ==
    /\ Paused
    /\ last' = "resume"
    /\ OnResume
    /\ UNCHANGED <<worker, now, ncmd, trace, host, inbox>>

\* one timer period of real time passes while a timeout is pending
LiveClock ==
    /\ timers # {}
    /\ \A tm \in timers : now < tm.due
    /\ now' = now + TimerDelay
    /\ runFor' = IF running THEN runFor + TimerDelay ELSE runFor
    /\ pausedFor' = IF ~running /\ state # Null THEN pausedFor + TimerDelay ELSE pausedFor
    /\ UNCHANGED <<worker, params, SPEED, running, state, inContact, momentumPre,
                   momentumPost, loopTimer, timers, lastReal, acc, outbox, steps,
                   last, ncmd, trace, host, inbox>>

LiveTimer == \E tm \in timers : TimerFires(tm)

\* a pending timeout is due: ENABLED <<LiveTimer>>_vars
TimerDue == \E tm \in timers : now >= tm.due

\* WF_vars(LiveTimer) with its ENABLED written out: a timeout that is due
\* does not stay pending forever
FairTimer == []<>(~TimerDue) \/ []<><<LiveTimer>>_vars

LiveNext ==
    \/ \E msg \in LiveMsgs(worker) : LiveCmd(msg)
    \/ LiveResume
    \/ LiveTimer
    \/ LiveClock

LiveSpec ==
    /\ Init
    /\ [][LiveNext]_vars
    /\ FairTimer
    /\ WF_vars(LiveClock)
    /\ WF_vars(LiveResume)

-----------------------------------------------------------------------------
(* The legacy projectile worker: fixed parameters, the commands start,      *)
(* pause and resume.  Its loop() ends with setTimeout(tickLoop, 16), and    *)
(* the script declares no tickLoop: evaluating the argument throws a        *)
(* ReferenceError before setTimeout is called, and the catch of onmessage   *)
(* posts an error.  No timeout is ever pending in this worker.              *)

\* `const params` of the legacy worker, in the units of PDefaults
LParams == [PDefaults EXCEPT !.dt = 10000]

\* the while loop of the legacy loop()
RECURSIVE LWhile(_, _)

\* one iteration: cur is the state after stepRK4; the run ends below the
\* ground or at maxT, before the sample is pushed
LIterate(w, p, cur) ==
    IF cur.y < 0 \/ cur.t >= p.maxT
    THEN [w EXCEPT !.state = cur, !.acc = w.acc - p.dt, !.steps = w.steps + 1,
                   !.running = FALSE]
    ELSE LWhile([w EXCEPT !.state = cur, !.acc = w.acc - p.dt,
                          !.steps = w.steps + 1,
                          !.batch1 = w.batch1 \o <<PSample(cur)>>], p)

LWhile(w, p) ==
    IF WhileCond(w, p) THEN LIterate(w, p, stepRK4(w.state, p)) ELSE w

\* what follows the while loop: the batch, then done, or the setTimeout
\* whose argument throws
LAfterWhile(w) ==
    LET tick == IF Len(w.batch1) > 0
                THEN <<Tick("batch", w.batch1, <<>>, PSnapshot(w.state))>>
                ELSE <<>>
    IN IF ~w.running
       THEN [w EXCEPT !.posts = tick \o <<DoneMsg>>, !.schedule = FALSE]
       ELSE [w EXCEPT !.posts = tick \o <<ErrorMsg>>, !.schedule = FALSE]

\* loop() of the legacy worker, called from onmessage at real time nowv
LLoop(w, nowv) ==
    IF ~w.running THEN [w EXCEPT !.ran = FALSE]
    ELSE LAfterWhile(LWhile([w EXCEPT !.ran = TRUE,
                                      !.acc = w.acc + Owed(nowv - w.lastReal, DefaultSpeed),
                                      !.lastReal = nowv, !.steps = 0], LParams))

\* loop() as start() calls it
\* `start`: start() builds the state, clears the timer and calls loop()
LegacyStart ==
    /\ ncmd < MaxCmds
    /\ ncmd' = ncmd + 1
    /\ last' = "start"
    /\ Commit(LLoop([Fields EXCEPT !.state = PInitState(LParams), !.running = TRUE,
                                   !.acc = 0, !.lastReal = now], now),
              Cleared(timers, loopTimer), 0)
    /\ outbox' = LLoop([Fields EXCEPT !.state = PInitState(LParams), !.running = TRUE,
                                      !.acc = 0, !.lastReal = now], now).posts
    /\ pausedFor' = 0
    /\ UNCHANGED <<worker, params, SPEED, now, trace, host, inbox>>

\* `pause`
LegacyPause ==
    /\ ncmd < MaxCmds
    /\ ncmd' = ncmd + 1
    /\ last' = "pause"
    /\ OnPause
    /\ UNCHANGED <<worker, now, trace, host, inbox>>

\* `resume`
LegacyResume ==
    /\ ncmd < MaxCmds
    /\ ncmd' = ncmd + 1
    /\ last' = "resume"
    /\ IF state = Null
       THEN UNCHANGED <<running, state, inContact, momentumPre, momentumPost,
                        loopTimer, timers, lastReal, acc, outbox, steps, runFor>>
       ELSE /\ Commit(LLoop([Fields EXCEPT !.running = TRUE, !.lastReal = now], now),
                     timers, loopTimer)
            /\ outbox' = outbox \o LLoop([Fields EXCEPT !.running = TRUE,
                                                        !.lastReal = now], now).posts
    /\ UNCHANGED <<worker, params, SPEED, now, pausedFor, trace, host, inbox>>

LegacyInit ==
    /\ worker = "legacy"
    /\ params = LParams
    /\ SPEED = DefaultSpeed
    /\ running = FALSE
    /\ state = Null
    /\ inContact = FALSE
    /\ momentumPre = Null
    /\ momentumPost = Null
    /\ loopTimer = 0
    /\ timers = {}
    /\ lastReal = 0
    /\ acc = 0
    /\ now = 0
    /\ outbox = <<>>
    /\ steps = 0
    /\ last = "init"
    /\ ncmd = 0
    /\ runFor = 0
    /\ pausedFor = 0
    /\ trace = NoTrace
    /\ host = NoHost
    /\ inbox = <<>>

LegacyNext ==
    \/ LegacyStart
    \/ LegacyPause
    \/ LegacyResume
    \/ \E d \in ClockJumps : Clock(d)

LegacySpec == LegacyInit /\ [][LegacyNext]_vars

-----------------------------------------------------------------------------
(* The host page composed with its worker.  Commands travel to the worker   *)
(* through inbox and notifications to the host through outbox; each side    *)
(* handles its messages in order, at any later moment.                      *)

\* number of clicks that send a command
MaxClicks == 3

\* a click on Start or Apply: startWithInputs() terminates the worker,
\* creates a new one (a fresh script, nothing received or posted yet) and
\* posts start to it
ClickStart ==
    /\ host.clicks < MaxClicks
    /\ host' = [running |-> TRUE, paused |-> FALSE, seen |-> 0,
                clicks |-> host.clicks + 1]
    /\ inbox' = <<[type |-> "start",
                    params |-> IF worker = "momentum" THEN MClose ELSE PShort,
                    speed |-> Num(4)]>>
    /\ params' = Defaults(worker)
    /\ SPEED' = DefaultSpeed
    /\ running' = FALSE
    /\ state' = Null
    /\ inContact' = FALSE
    /\ momentumPre' = Null
    /\ momentumPost' = Null
    /\ loopTimer' = 0
    /\ timers' = {}
    /\ lastReal' = 0
    /\ acc' = 0
    /\ outbox' = <<>>
    /\ steps' = 0
    /\ last' = "init"
    /\ ncmd' = 0
    /\ runFor' = 0
    /\ pausedFor' = 0
    /\ UNCHANGED <<worker, now, trace>>

\* a click on Pause/Resume that gets past `if (!running) return`
ClickPause ==
    /\ host.clicks < MaxClicks
    /\ host.running
    /\ host' = [host EXCEPT !.paused = ~host.paused, !.clicks = host.clicks + 1]
    /\ inbox' = Append(inbox, [type |-> IF host.paused THEN "resume" ELSE "pause"])
    /\ UNCHANGED <<worker, params, SPEED, running, state, inContact, momentumPre,
                   momentumPost, loopTimer, timers, lastReal, acc, now, outbox,
                   steps, last, ncmd, runFor, pausedFor, trace>>

\* the worker receives the oldest command in flight
Deliver ==
    /\ inbox # <<>>
    /\ Receive(Head(inbox))
    /\ inbox' = Tail(inbox)
    /\ UNCHANGED <<worker, now, trace, host>>

\* worker.onmessage of the host: the oldest notification not yet handled
HostReceive ==
    /\ host.seen < Len(outbox)
    /\ host' = IF outbox[host.seen + 1].type = "done"
               THEN [host EXCEPT !.running = FALSE, !.paused = FALSE,
                                 !.seen = host.seen + 1]
               ELSE [host EXCEPT !.seen = host.seen + 1]
    /\ UNCHANGED <<worker, params, SPEED, running, state, inContact, momentumPre,
                   momentumPost, loopTimer, timers, lastReal, acc, now, outbox,
                   steps, last, ncmd, runFor, pausedFor, trace, inbox>>

HostNext ==
    \/ ClickStart
    \/ ClickPause
    \/ Deliver
    \/ HostReceive
    \/ \E tm \in timers : TimerFires(tm)
    \/ \E d \in ClockJumps : Clock(d)

HostSpec == Init /\ [][HostNext]_vars

-----------------------------------------------------------------------------
(* Steps of the worker, for the properties below *)

StartStep == \E msg \in StartMsgs(worker) : OnMessage(msg)
AcceptedStart == \E msg \in StartMsgs(worker) : msg.params # Null /\ OnMessage(msg)
PauseStep == OnMessage([type |-> "pause"])
ResumeStep == OnMessage([type |-> "resume"])
SetSpeedStep == \E sp \in SpeedInputs : OnMessage([type |-> "setSpeed", speed |-> sp])
TimerStep == \E tm \in timers : TimerFires(tm)
FlightStep == \E n \in OwedSteps : FlightTick(n)

\* the last notification posted in this run is a done
DoneLast == Len(outbox) > 0 /\ outbox[Len(outbox)].type = "done"

\* simulated time the step added to acc: what acc gained plus what the
\* integration steps of the step took from it
AccAdded == acc' - acc + steps' * params.dt

-----------------------------------------------------------------------------
(* Properties *)

\* C1: a tick performs at most MAX_STEPS = 10 integration steps, whatever
\* the real-time delta, SPEED and the owed time already accumulated.
C1_StepCap == steps <= MAX_STEPS

\* a tick stopped by the cap with simulated time still owed
C1_Witness == steps = MAX_STEPS /\ running /\ acc >= params.dt

\* C2: once done has been posted, no integration step is performed and no
\* tick or done is posted until a start command is received, whatever
\* pause/resume/setSpeed commands arrive.
C2_DoneTerminal ==
    [][(DoneLast /\ ~StartStep) => (state' = state /\ outbox' = outbox)]_vars

\* C3: in the tick that ends the run the samples of the tick are posted in
\* tick messages before done, and done is the last notification of the run:
\* no tick and no second done follows it (the error reply to a start that
\* failed afterwards is not counted against the run).
C3_DoneLast ==
    \A i \in DOMAIN outbox :
        outbox[i].type = "done" =>
            /\ i > 1
            /\ outbox[i - 1].type = "tick"
            /\ \A j \in DOMAIN outbox : j > i => outbox[j].type = "error"

\* C4: after a pause no integration step occurs and nothing is posted until
\* a resume or start command is processed, even if a tick was scheduled
\* before the pause: the pause itself, and every step taken while running is
\* false other than a start or resume, leaves the simulation state and the
\* posted notifications as they are, and leaves running false.
C4_PauseStops ==
    [][(PauseStep \/ (~running /\ ~StartStep /\ ~ResumeStep))
          => (~running' /\ state' = state /\ outbox' = outbox)]_vars

\* a timeout scheduled before the pause expired while the engine was paused
C4_Witness == Paused /\ last = "skip" /\ pausedFor > 0 /\ state.t > 0

\* C5 as stated: pause, and every step while the engine stays Paused, leaves
\* body state, t, acc, the contact flag, the momentum snapshots, the
\* parameters and SPEED unchanged.
C5_PauseFreezesAll ==
    [][(PauseStep \/ (Paused /\ Paused'))
          => UNCHANGED <<state, acc, inContact, momentumPre, momentumPost,
                         params, SPEED>>]_vars

\* C5 amended: pause, and every step while the engine stays Paused, leaves
\* body state, t, acc, the contact flag, the momentum snapshots and the
\* parameters unchanged; pause leaves SPEED unchanged, and while Paused
\* SPEED changes only by a setSpeed command.
C5_PauseFreezes ==
    [][/\ (PauseStep \/ (Paused /\ Paused'))
            => UNCHANGED <<state, acc, inContact, momentumPre, momentumPost, params>>
       /\ PauseStep => SPEED' = SPEED
       /\ (Paused /\ Paused' /\ SPEED' # SPEED) => SetSpeedStep]_vars

\* paused in mid-run with owed time in acc, and a setSpeed processed since
C5_Witness ==
    Paused /\ last = "setSpeed" /\ SPEED = 2 /\ pausedFor > 0 /\ acc > 0 /\ state.t > 0

\* C6: real time that passes while the engine is not running is never added
\* to acc: the tick run by a resume adds SPEED x (time since the resume
\* instant), which is nothing, and a tick run by the timer adds SPEED x (the
\* real time spent running since the previous tick).
C6_PausedTimeNotCounted ==
    [][/\ (ResumeStep /\ state # Null) => (AccAdded = 0 /\ lastReal' = now)
       /\ (TimerStep /\ running) => AccAdded = Owed(runFor, SPEED)]_vars

\* a resume processed after real time has passed in pause
C6_Witness ==
    /\ last = "resume" /\ running /\ ~Finished
    /\ pausedFor > 0 /\ lastReal = now /\ state.t > 0

\* C7 as stated: a start received while the engine is Running or Paused
\* keeps state, t and acc of the current run.
C7_StartRejectedInRun ==
    [][(StartStep /\ (running \/ Paused)) => UNCHANGED <<state, acc>>]_vars

\* C7 amended: start is accepted in every state, Running and Paused
\* included: every start whose params payload is not null re-initializes the
\* run (state rebuilt from the effective parameters, t = 0, acc = 0,
\* running).
C7_StartAlwaysAccepted ==
    [][AcceptedStart
          => /\ state' = InitState(worker, params')
             /\ state'.t = 0
             /\ acc' = 0
             /\ running']_vars

\* a start accepted in mid-run
C7_Witness == last = "restart" /\ now > 0 /\ state.t = 0 /\ acc = 0 /\ running

\* C8: after an accepted start t = 0, acc = 0, the contact flag is false,
\* both momentum snapshots are null, the bodies are where the effective
\* parameters put them, running is true, and the only timeout pending is
\* the one this start scheduled.
C8_StartResetsAll ==
    [][AcceptedStart
          => /\ state' = InitState(worker, params')
             /\ state'.t = 0
             /\ acc' = 0
             /\ ~inContact'
             /\ momentumPre' = Null
             /\ momentumPost' = Null
             /\ running'
             /\ timers' = {[id |-> loopTimer', due |-> now + TimerDelay]}]_vars

\* C9: every accepted start posts exactly one seed tick, the first
\* notification of the run, carrying the initial state at t = 0 with one
\* sample per body.
C9_OneSeedFirst ==
    state # Null =>
        /\ Len(outbox) >= 1
        /\ \A i \in DOMAIN outbox :
              (outbox[i].type = "tick" /\ outbox[i].src = "seed") <=> i = 1
        /\ outbox[1].state.t = 0
        /\ Len(outbox[1].points) = 1
        /\ outbox[1].points[1].t = 0
        /\ IF worker = "momentum"
           THEN /\ outbox[1].points = <<[x |-> params.x1, y |-> params.y1, t |-> 0]>>
                /\ outbox[1].points2 = <<[x |-> params.x2, y |-> params.y2, t |-> 0]>>
           ELSE /\ outbox[1].points[1].x = 0
                /\ outbox[1].points[1].y = 0
                /\ outbox[1].points2 = <<>>

\* a run whose seed has been followed by integration samples
C9_Witness ==
    /\ state # Null /\ Len(outbox) >= 2
    /\ outbox[2].type = "tick" /\ outbox[2].points[1].t > 0

\* C10: setSpeed, in any state, changes nothing but SPEED and posts nothing.
C10_SetSpeedFrame ==
    [][SetSpeedStep
          => UNCHANGED <<acc, state, inContact, momentumPre, momentumPost, params,
                         running, loopTimer, timers, lastReal, outbox>>]_vars

\* the speed changed in mid-run, with owed time in acc
C10_Witness == last = "setSpeed" /\ SPEED = 2 /\ running /\ state.t > 0 /\ acc > 0

\* C11: in every reachable state, whatever values the start and setSpeed
\* commands carried (negative, zero, not finite, missing), dt > 0, SPEED > 0,
\* maxT > 0, and in the momentum worker both masses and both radii are > 0.
C11_PositiveParams ==
    /\ params.dt > 0
    /\ params.maxT > 0
    /\ SPEED > 0
    /\ worker = "momentum" =>
          (params.m1 > 0 /\ params.m2 > 0 /\ params.r1 > 0 /\ params.r2 > 0)

\* a run started with out-of-range values only (the parameters are still the
\* defaults), followed by a setSpeed that was refused
C11_Witness ==
    /\ state # Null /\ params = Defaults(worker)
    /\ last = "setSpeed" /\ SPEED = DefaultSpeed

\* C12: the effective parameters of a run depend only on the start command
\* that began it: each accepted start leaves `params` equal to the defaults
\* overridden by the valid fields of its own message, whatever earlier
\* starts supplied.
C12_ParamsFromThisStart ==
    [][\A msg \in StartMsgs(worker) :
          (msg.params # Null /\ OnMessage(msg))
              => params' = applyParams(worker, Defaults(worker), msg.params)]_vars

\* the value is non-positive or not a finite number
BadValue(x) == ~x.fin \/ x.v <= 0

\* C13: a start whose mass, radius, dt or maxT value is non-positive or not
\* finite runs with that parameter floored at a small positive epsilon: the
\* effective value is positive and smaller than the documented default.
C13_FlooredAtEpsilon ==
    [][\A msg \in StartMsgs(worker) :
          (msg.params # Null /\ OnMessage(msg))
              => \A k \in DOMAIN msg.params \cap {"m1", "m2", "r1", "r2", "dt", "maxT"} :
                    (k \in DOMAIN params /\ BadValue(msg.params[k]))
                        => (0 < params'[k] /\ params'[k] < Defaults(worker)[k])]_vars

\* an error notification has been posted since the last accepted start
ErrorPosted == \E i \in DOMAIN outbox : outbox[i].type = "error"

\* C14: there is no rejected start: every start command, whatever its params
\* payload, leaves the engine running with the seed tick posted and posts no
\* error.
C14_NoRejectedStart ==
    [][StartStep
          => /\ running'
             /\ Len(outbox') >= 1
             /\ outbox'[1].type = "tick"
             /\ outbox'[1].src = "seed"
             /\ \A i \in DOMAIN outbox' : outbox'[i].type # "error"]_vars

\* C15: once a fault raised in a command or a tick has been reported by an
\* error notification, the engine performs no integration step and posts no
\* tick or done until a start command is received.
C15_InertAfterError ==
    [][(ErrorPosted /\ ~StartStep) => (state' = state /\ outbox' = outbox)]_vars

Within(x, r, lo, hi) == x - r >= lo /\ x + r <= hi

\* one coordinate of one body over an iteration: x0, v0 at its start, a the
\* advanced position, x1, v1 at its end; w0, w1 the velocity along the other
\* axis and b the advanced position on it, between the walls lo2 and hi2.  A
\* body that was within the walls and whose advanced position is beyond one
\* ends the iteration at wall -/+ r with v flipped, and with w unchanged
\* unless it met a wall of the other axis too.
Reflects(x0, v0, a, x1, v1, r, lo, hi, w0, b, w1, lo2, hi2) ==
    (Within(x0, r, lo, hi) /\ ~Within(a, r, lo, hi))
        => /\ a - r < lo => x1 = lo + r
           /\ a + r > hi => x1 = hi - r
           /\ v1 = -v0
           /\ Within(b, r, lo2, hi2) => w1 = w0

\* Reflects for both axes of both bodies: s the state before the iteration, a
\* the advanced state, n the state after the iteration
AllReflect(s, a, n, p) ==
    /\ Reflects(s.x1, s.vx1, a.x1, n.x1, n.vx1, p.r1, BOUNDS.xMin, BOUNDS.xMax,
                s.vy1, a.y1, n.vy1, BOUNDS.yMin, BOUNDS.yMax)
    /\ Reflects(s.y1, s.vy1, a.y1, n.y1, n.vy1, p.r1, BOUNDS.yMin, BOUNDS.yMax,
                s.vx1, a.x1, n.vx1, BOUNDS.xMin, BOUNDS.xMax)
    /\ Reflects(s.x2, s.vx2, a.x2, n.x2, n.vx2, p.r2, BOUNDS.xMin, BOUNDS.xMax,
                s.vy2, a.y2, n.vy2, BOUNDS.yMin, BOUNDS.yMax)
    /\ Reflects(s.y2, s.vy2, a.y2, n.y2, n.vy2, p.r2, BOUNDS.yMin, BOUNDS.yMax,
                s.vx2, a.x2, n.vx2, BOUNDS.xMin, BOUNDS.xMax)

\* C17 as stated: in every iteration in which the advanced position of a body
\* crosses a wall, the body ends the iteration at wall -/+ radius with the
\* velocity component perpendicular to the wall flipped and the parallel one
\* unchanged.
C17_ReflectsInEveryStep ==
    [][Iterate => AllReflect(state, Advance(state, params.dt), state', params)]_vars

\* C17 amended: the same, in every iteration that resolves no collision (the
\* wall tests follow the collision handling, which moves the bodies back to
\* the contact point and changes their velocities).
C17_ReflectsWithoutCollision ==
    [][(Iterate /\ ~trace'.hit)
          => AllReflect(state, Advance(state, params.dt), state', params)]_vars

\* body 1 has just been turned back by the right wall and by the top wall in
\* one iteration without a collision
C17_Witness ==
    /\ steps > 0 /\ ~trace.hit
    /\ state.x1 = BOUNDS.xMax - params.r1 /\ state.vx1 < 0
    /\ state.y1 = BOUNDS.yMax - params.r1 /\ state.vy1 < 0

\* twice the kinetic energy of the two bodies
KE2(s, p) ==
    p.m1 * (s.vx1 * s.vx1 + s.vy1 * s.vy1) + p.m2 * (s.vx2 * s.vx2 + s.vy2 * s.vy2)

\* what rounding each velocity component to the fixed-point grid (an error
\* below 1.5 units per component) can change in KE2
KE2Tol(s, p) ==
    3 * (p.m1 * (Abs(s.vx1) + Abs(s.vy1)) + p.m2 * (Abs(s.vx2) + Abs(s.vy2)))
        + 10 * (p.m1 + p.m2)

\* C18: every collision resolution conserves total momentum on both axes:
\* momentumPost.total = momentumPre.total, up to the rounding of the four
\* velocity components to the fixed-point grid (half a unit each).
C18_MomentumConserved ==
    [][(Iterate /\ trace'.hit)
          => /\ Abs(momentumPost'.total.px - momentumPre'.total.px)
                    <= params.m1 + params.m2
             /\ Abs(momentumPost'.total.py - momentumPre'.total.py)
                    <= params.m1 + params.m2]_vars

\* an off-centre collision of bodies of masses 3 and 2 has been resolved and
\* has changed the momentum of each body on both axes
C18_Witness ==
    /\ trace.hit /\ params.m1 = 3 /\ params.m2 = 2
    /\ momentumPost.p1.px # momentumPre.p1.px
    /\ momentumPost.p1.py # momentumPre.p1.py

\* C19: every collision resolution conserves the total kinetic energy of the
\* two bodies, up to the rounding of the velocity components to the
\* fixed-point grid.
C19_EnergyConserved ==
    [][(Iterate /\ trace'.hit)
          => Abs(KE2(state', params) - KE2(state, params)) <= KE2Tol(state', params)]_vars

\* an off-centre collision of unequal masses has been resolved and has
\* changed the speed of both bodies
C19_Witness ==
    /\ trace.hit /\ params.m1 = 3 /\ params.m2 = 1
    /\ state.vy1 # 0 /\ state.vy2 # 0
    /\ state.vx1 # momentumPre.p1.px \div params.m1

\* C20: in the default scenario (m1 = m2 = 1, r1 = r2 = 0.25, body 1 at
\* x = -5 with velocity (5, 0), body 2 at x = 5 with velocity (-5, 0), both on
\* y = 0) the first collision resolution leaves body 1 with velocity (-5, 0)
\* and body 2 with velocity (5, 0).
C20_HeadOnExchange ==
    [][(Iterate /\ params = MDefaults /\ trace.hits = 0 /\ trace'.hit)
          => /\ state.vx1 = 5000 /\ state.vy1 = 0
             /\ state.vx2 = -5000 /\ state.vy2 = 0
             /\ state'.vx1 = -5000 /\ state'.vy1 = 0
             /\ state'.vx2 = 5000 /\ state'.vy2 = 0
             /\ momentumPost'.p1.px = -5000 /\ momentumPost'.p2.px = 5000]_vars

\* the default scenario has just had its first resolution, the bodies
\* touching on the x axis
C20_Witness ==
    /\ params = MDefaults /\ trace.hits = 1 /\ trace.hit
    /\ state.y1 = 0 /\ state.y2 = 0
    /\ momentumPre.p1.px = 5000 /\ momentumPre.p2.px = -5000

\* the last notification before the closing done of outbox, and the last
\* sample it carries
BeforeDone == outbox[Len(outbox) - 1]
LastSample == BeforeDone.points[Len(BeforeDone.points)]

\* a call of loop() in which the projectile stepped from y >= 0 to y < 0
Crossing == FlightStep /\ state.y >= 0 /\ state'.y < 0

\* C21 as stated: whenever a projectile run has reached done, the last sample
\* emitted before the done has y = 0.
C21_LastSampleOnGround ==
    (worker = "projectile" /\ DoneLast)
        => (Len(outbox) >= 2 /\ BeforeDone.type = "tick" /\ LastSample.y = 0)

\* C21: a projectile run that ends by ground contact (a step from y >= 0 to
\* y < 0) posts done in that call of loop(), and the last sample emitted
\* before the done has y = 0; a run that ends otherwise ends at t >= maxT
\* with its last raw sample, which is the state's position.
C21_LandingSampleOnGround ==
    [][(FlightStep /\ DoneLast')
          => /\ Len(outbox') >= 2 /\ BeforeDone'.type = "tick"
             /\ IF Crossing
                THEN LastSample'.y = 0
                ELSE state'.t >= params.maxT /\ LastSample'.y = state'.y]_vars

\* a flight has ended on the ground in a call that first flushed two raw
\* samples, the second of them above the ground
C21_Witness ==
    /\ DoneLast /\ Len(outbox) = 3 /\ state.y < 0
    /\ outbox[1].src = "flush" /\ Len(outbox[1].points) = 2
    /\ outbox[1].points[2].y > 0
    /\ LastSample.y = 0

\* C22: whenever a landing sample is produced, its time tHit lies strictly
\* between the timestamps of the last two raw integration steps:
\* t_prev < tHit < t_new.
C22_LandingTimeStrictlyBetween ==
    [][Crossing
          => /\ state'.t - params.dt < LastSample'.t
             /\ LastSample'.t < state'.t]_vars

\* the t values of a sequence of samples never decrease
NonDecreasing(pts) == \A k \in 1..(Len(pts) - 1) : pts[k].t <= pts[k + 1].t

\* the samples of notification j follow those of notification i in time
Follows(ptsI, ptsJ) ==
    (Len(ptsI) > 0 /\ Len(ptsJ) > 0) => ptsI[Len(ptsI)].t <= ptsJ[1].t

\* C23: within one run the t values of the samples emitted to the host never
\* decrease in emission order, for each body's stream of samples: inside one
\* notification and from one notification to every later one, the
\* collision-instant sample and the landing sample included.
C23_TimesNonDecreasing ==
    \A i \in DOMAIN outbox :
        outbox[i].type = "tick"
            => /\ NonDecreasing(outbox[i].points)
               /\ NonDecreasing(outbox[i].points2)
               /\ \A j \in DOMAIN outbox :
                      (j > i /\ outbox[j].type = "tick")
                          => /\ Follows(outbox[i].points, outbox[j].points)
                             /\ Follows(outbox[i].points2, outbox[j].points2)

\* a run of the momentum worker that was paused for a while and resumed has
\* ticked again, and its samples include the collision-instant sample, which
\* carries the t of the raw sample before it
C23_Witness ==
    /\ worker = "momentum" /\ last = "tick" /\ running /\ pausedFor > 0
    /\ momentumPost # Null
    /\ Len(outbox) >= 3 /\ outbox[Len(outbox)].type = "tick"
    /\ \E i \in DOMAIN outbox :
           /\ outbox[i].type = "tick"
           /\ \E k \in 1..(Len(outbox[i].points) - 1) :
                  outbox[i].points[k].t = outbox[i].points[k + 1].t

\* C24: if the timer keeps firing, real time advances between ticks and
\* every pause is followed by a resume, every started run reaches a stopping
\* condition (t >= maxT, or ground contact for the projectile) and emits
\* done.
C24_EventuallyDone == (state # Null /\ ~Finished) ~> (Finished /\ ~running)

\* a run that was slowed down by setSpeed has ended: by t >= maxT in the
\* momentum worker, below the ground in the projectile worker
C24_Witness ==
    /\ DoneLast /\ ~running /\ last = "tick" /\ SPEED = 2 /\ timers = {}
    /\ IF worker = "momentum" THEN state.t >= params.maxT ELSE state.y < 0

\* the closed-form trajectory without drag at time t, from the launch
\* velocity s0: x = vx0 * t, y = vy0 * t - g * t^2 / 2, vx = vx0,
\* vy = vy0 - g * t
Parabola(s0, g, t) ==
    [x |-> MulDiv(s0.vx, t, 1000),
     y |-> MulDiv(t, s0.vy - MulDiv(g, t, 2000000), 1000),
     vx |-> s0.vx,
     vy |-> s0.vy - MulDiv(g, t, 1000000),
     t |-> t]

\* C25: with cd = 0 and wind = 0 the state after k steps of stepRK4 from
\* launch is the closed-form parabola at t = k * dt, in position and in
\* velocity.
C25_ZeroDragParabola ==
    (worker = "projectile" /\ state # Null /\ params.cd = 0 /\ params.wind = 0)
        => state = Parabola(PInitState(params), params.g, state.t)

\* a launch at 45 degrees without drag is past its apex, 100 steps into the
\* flight
C25_Witness ==
    /\ worker = "projectile" /\ state # Null /\ params.cd = 0 /\ params.wind = 0
    /\ running /\ state.t = 100 * params.dt
    /\ state.vx > 0 /\ state.vy < 0 /\ state.y > 0

\* both bodies lie inside the box
InBox(s, p) ==
    /\ Within(s.x1, p.r1, BOUNDS.xMin, BOUNDS.xMax)
    /\ Within(s.y1, p.r1, BOUNDS.yMin, BOUNDS.yMax)
    /\ Within(s.x2, p.r2, BOUNDS.xMin, BOUNDS.xMax)
    /\ Within(s.y2, p.r2, BOUNDS.yMin, BOUNDS.yMax)

\* the box is wide and high enough to hold each body
Fits(p) ==
    /\ 2 * p.r1 <= BOUNDS.xMax - BOUNDS.xMin /\ 2 * p.r1 <= BOUNDS.yMax - BOUNDS.yMin
    /\ 2 * p.r2 <= BOUNDS.xMax - BOUNDS.xMin /\ 2 * p.r2 <= BOUNDS.yMax - BOUNDS.yMin

\* C26 as stated: the boundary reflection comes before the collision test,
\* so an iteration resolves a collision exactly when the bodies are not in
\* contact and the advanced positions, clamped to the box, are within
\* r1 + r2 of each other.
C26_CollisionSeesClampedPositions ==
    [][Iterate
          => (trace'.hit
                <=> (~inContact
                     /\ Dist(ApplyBounds(Advance(state, params.dt), params))
                            <= params.r1 + params.r2))]_vars

\* C26: within one fixed step the phases are applied in the order advance
\* positions, collision detect/resolve, boundary reflect, recompute the
\* contact status: the collision test sees the advanced positions before
\* they are clamped, the step ends with both bodies inside the box (if it can
\* hold them) also when a collision was resolved, and the contact flag that survives the step is
\* one of bodies no further apart than r1 + r2 after the clamp.
C26_CollisionBeforeBounds ==
    [][Iterate
          => /\ trace'.hit
                  <=> (~inContact
                       /\ Dist(Advance(state, params.dt)) <= params.r1 + params.r2)
             /\ Fits(params) => InBox(state', params)
             /\ inContact' => Dist(state') <= params.r1 + params.r2]_vars

\* the first step took body 1 past body 2 and through the wall: the clamp
\* has put it back onto body 2, and no collision was resolved
C26_Witness ==
    /\ worker = "momentum" /\ state.t = params.dt /\ trace.hits = 0 /\ ~inContact
    /\ Dist(state) < params.r1 + params.r2
    /\ state.x1 = BOUNDS.xMin + params.r1 /\ state.vx1 > 0

\* the impulse has been applied since a step last ended with the centres
\* further apart than r1 + r2
ImpulseApplied == trace.hits > 0 /\ ~trace.apart

\* C27: at the end of every integration step the contact flag is true if and
\* only if the centre distance is <= r1 + r2 and the impulse has been applied
\* since the distance last exceeded r1 + r2; the flag goes from true to false
\* only at a step end where the distance is > r1 + r2.
C27_ContactFlag ==
    /\ [](inContact <=> (Dist(state) <= params.r1 + params.r2 /\ ImpulseApplied))
    /\ [][(inContact /\ ~inContact')
              => (Iterate /\ Dist(state') > params.r1 + params.r2)]_vars

\* the flag has been set by a resolution, cleared by a separation, and set
\* again by a second resolution, after which a step has ended with the
\* bodies still within r1 + r2
C27_Witness ==
    /\ inContact /\ ~trace.hit /\ trace.hits >= 2
    /\ Dist(state) <= params.r1 + params.r2

\* a call of loop() by the timer that got past the guard `if (!running)`
Ticked == TimerStep /\ last' = "tick"

\* C28: a tick that performs n steps leaves acc_after = acc_before +
\* delta * SPEED - n * dt (delta the real time since lastReal, 1 ms at SPEED
\* 0.25 being 250 us) with acc_after >= 0; if the tick did not end the run,
\* acc_after < dt or n = MAX_STEPS; and what is left in acc is carried
\* unchanged to the next tick: only a tick, a resume (a tick with delta = 0)
\* and a start change acc.
C28_PacerAccounting ==
    [][/\ Ticked
            => /\ acc' = acc + (now - lastReal) * SPEED * 250 - steps' * params.dt
               /\ acc' >= 0
               /\ running' => (acc' < params.dt \/ steps' = MAX_STEPS)
       /\ (ResumeStep /\ state # Null)
            => /\ acc' = acc - steps' * params.dt
               /\ acc' >= 0
               /\ running' => (acc' < params.dt \/ steps' = MAX_STEPS)
       /\ ~(Ticked \/ ResumeStep \/ StartStep) => acc' = acc]_vars

\* a tick at real-time speed has taken some steps, fewer than MAX_STEPS, and
\* has left a fraction of dt owed
C28_Witness ==
    /\ last = "tick" /\ running /\ SPEED = 4
    /\ steps > 0 /\ steps < MAX_STEPS
    /\ acc > 0 /\ acc < params.dt

\* C29: no running time is lost.  t + acc = SPEED * (real time spent Running
\* since start) at the end of every tick means that every tick, and every
\* resume of a paused run (the first call of loop() after the pause), adds
\* to t + acc the real time the engine has spent Running since the previous
\* executed call of loop(), times SPEED.
C29_NoRunningTimeLost ==
    [][(Ticked \/ (ResumeStep /\ Paused))
          => AccAdded = runFor * SPEED * 250]_vars

\* the number of tick notifications in a sequence of notifications
TickCount(box) == Cardinality({i \in DOMAIN box : box[i].type = "tick"})

\* the projectile has stepped from y >= 0 to y < 0 in this call of loop()
Landed == worker = "projectile" /\ state.y >= 0 /\ state'.y < 0

\* C30 as stated: each tick sends exactly one tick notification, whatever
\* number of steps it performed and whether or not it ended the run.
C30_OneSnapshotPerTick ==
    [][Ticked => TickCount(outbox') = TickCount(outbox) + 1]_vars

\* C30: a tick sends one tick notification with the samples of its steps,
\* and none when it performed no step; the tick in which the projectile
\* lands sends the landing notification, after the notification that
\* flushes the raw samples of its earlier steps when there are any.
C30_SnapshotsPerTick ==
    [][Ticked
          => TickCount(outbox') - TickCount(outbox)
                = IF Landed THEN (IF steps' > 1 THEN 2 ELSE 1)
                  ELSE (IF steps' > 0 THEN 1 ELSE 0)]_vars

\* a timer tick of the projectile worker has taken several steps, the last
\* of them through the ground, and has posted the flushed samples, the
\* landing sample and done
C30_Witness ==
    /\ worker = "projectile" /\ last = "tick" /\ steps > 1 /\ DoneLast
    /\ Len(outbox) >= 4
    /\ outbox[Len(outbox) - 2].src = "flush"
    /\ Len(outbox[Len(outbox) - 2].points) = steps - 1
    /\ BeforeDone.src = "landing"

\* C31: in each of the three workers a start command with well-formed
\* parameters schedules the first tick and posts no error notification.
\* Stated for the start command of the legacy projectile worker, whose
\* parameters are fixed.
C31_StartSchedulesFirstTick ==
    [][LegacyStart => (timers' # {} /\ loopTimer' # 0 /\ ~ErrorPosted')]_vars

\* the sample r pushed at the contact point lies, for both bodies, on the
\* segments from the positions in prev to those in adv
ContactOnSegment(prev, adv, r) ==
    /\ Min2(prev.x1, adv.x1) <= r.pts1[1].x /\ r.pts1[1].x <= Max2(prev.x1, adv.x1)
    /\ Min2(prev.y1, adv.y1) <= r.pts1[1].y /\ r.pts1[1].y <= Max2(prev.y1, adv.y1)
    /\ Min2(prev.x2, adv.x2) <= r.pts2[1].x /\ r.pts2[1].x <= Max2(prev.x2, adv.x2)
    /\ Min2(prev.y2, adv.y2) <= r.pts2[1].y /\ r.pts2[1].y <= Max2(prev.y2, adv.y2)

\* C32: whenever an iteration resolves a collision, the contact position of
\* each body (the sample pushed at the moment of contact) lies on the segment
\* between its position before the step and its raw advanced position, that
\* is, alpha lies in [0, 1].
C32_ContactOnSegment ==
    [][(Iterate /\ trace'.hit)
          => ContactOnSegment(state, Advance(state, params.dt),
                              MStep(state, inContact, momentumPre, momentumPost, params))]_vars

\* C33: for any sequence of start, pause, resume and setSpeed commands, at
\* most one tick is pending on the timer at any time.
C33_OneTickPending == Cardinality(timers) <= 1

\* C34: in the composed host and worker, whatever the interleaving of
\* Pause/Resume clicks with notifications in flight, a worker that has posted
\* done performs no further integration step, is not made Running again and
\* posts no second done.
C34_DoneFinalInComposition ==
    [][(Finished /\ ~ClickStart)
          => /\ state' = state
             /\ ~running'
             /\ Cardinality({i \in DOMAIN outbox' : outbox'[i].type = "done"}) = 1]_vars

\* C35: every sample and every state snapshot the parameterised projectile
\* worker emits has y >= 0.
C35_NothingBelowGround ==
    \A i \in DOMAIN outbox :
        outbox[i].type = "tick"
            => /\ outbox[i].state.y >= 0
               /\ \A j \in DOMAIN outbox[i].points : outbox[i].points[j].y >= 0

\* C36: after every integration step of the momentum worker each body lies
\* inside the box, xMin + r <= x <= xMax - r and yMin + r <= y <= yMax - r,
\* for all accepted parameters.
C36_InsideBoxAfterStep == [][Iterate => InBox(state', params)]_vars

\* the samples of body 1 that the ticks of box carry, in the order posted
RECURSIVE AllPoints(_)
AllPoints(box) ==
    IF box = <<>> THEN <<>>
    ELSE (IF Head(box).type = "tick" THEN Head(box).points ELSE <<>>)
             \o AllPoints(Tail(box))

\* the contact samples among pts: a collision resolution pushes its sample
\* with the time of the sample before it, a step with a later time
ContactSamples(pts) == {j \in 2..Len(pts) : pts[j].t = pts[j - 1].t}

\* C37: in every reachable state and every emitted snapshot of the momentum
\* worker, momentumPre and momentumPost are both null or both non-null, and
\* the snapshot's collided flag is true exactly when a collision has been
\* resolved since the most recent start (a contact sample has been pushed in
\* this run, up to and including the tick that carries the snapshot).
C37_MomentumPairAndCollided ==
    worker = "momentum"
        => /\ (momentumPre = Null) <=> (momentumPost = Null)
           /\ \A i \in DOMAIN outbox :
                 outbox[i].type = "tick"
                     => /\ (outbox[i].state.momentumPre = Null)
                               <=> (outbox[i].state.momentumPost = Null)
                        /\ outbox[i].state.collided
                               <=> ContactSamples(AllPoints(SubSeq(outbox, 1, i))) # {}

\* the run has posted a snapshot with collided clear and, after a collision,
\* one with collided set that carries the momenta the worker holds
C37_Witness ==
    /\ worker = "momentum" /\ momentumPre # Null /\ momentumPost # Null
    /\ \E i \in DOMAIN outbox, j \in DOMAIN outbox :
          /\ i < j /\ outbox[i].type = "tick" /\ outbox[j].type = "tick"
          /\ ~outbox[i].state.collided /\ outbox[j].state.collided
          /\ outbox[j].state.momentumPre = momentumPre

\* the step is a callback whose loop() got past its guard: a timer tick, or
\* a resume of a worker that has a state
LoopRan ==
    \/ last' = "tick" /\ ncmd' = ncmd /\ Ticked
    \/ last' = "resume" /\ state # Null /\ ResumeStep

====
